---- MODULE Spec2Model ----
(***************************************************************************)
(* Model of utils/rate_limit_manager.py: BackoffStrategy.get_delay and     *)
(* RateLimitManager (execute_with_retry, reset_counts,                     *)
(* get_rate_limit_info, _parse_rate_limit_headers, _should_retry,          *)
(* _wait_for_reset).                                                       *)
(*                                                                         *)
(* Durations and clock readings are integers in units of 1/TimeScale       *)
(* seconds; fractions (rate_limit_threshold, jitter_factor) are kept as    *)
(* numerator/denominator pairs.  Float rounding and float range are not    *)
(* modelled.  Strings that the code parses or searches are sequences of    *)
(* characters (header values) or of words (exception messages).            *)
(***************************************************************************)
EXTENDS Integers, Sequences, FiniteSets, TLC

VARIABLES
    config,         \* RateLimitManager.config (immutable after __init__)
    retry_counts,   \* RateLimitManager.retry_counts: dict op_id -> int
    rate_limits,    \* RateLimitManager.rate_limits: dict op_id -> snapshot
    pc,             \* per thread: position inside execute_with_retry
    op_id,          \* per thread: local op_id of the running call
    exc,            \* per thread: exception being handled by the except clause
    tmp,            \* per thread: value loaded by the read half of "+= 1"
    outcome,        \* per thread: how the call ended (result / error)
    trace,          \* per thread: history of the running call (invocations, sleeps)
    c0,             \* per thread: history, counter of op_id when the call started (-1: absent)
    failed,         \* history: failed invocations per id since its last reset
    last            \* history: the most recent public call and what it returned

vars == <<config, retry_counts, rate_limits, pc, op_id, exc, tmp, outcome,
          trace, c0, failed, last>>

------------------------------------------------------------------------------
(* Bounds *)

MaxRetriesBound == 2      \* max_retries is drawn from 1..MaxRetriesBound
MaxAttempt == 5           \* get_delay is called directly with 0..MaxAttempt
MaxCountBound == 4        \* counters preset in the pure-function specification

Threads == {"t1", "t2"}
MainThread == "t1"

TimeScale == 10           \* model time units per second

------------------------------------------------------------------------------
(* Python dict helpers *)

EmptyDict == [k \in {} |-> 0]

Put(d, k, v) == [x \in (DOMAIN d) \cup {k} |-> IF x = k THEN v ELSE d[x]]

Pop(d, k) == [x \in (DOMAIN d) \ {k} |-> d[x]]

Setdefault(d, k, v) == IF k \in DOMAIN d THEN d ELSE Put(d, k, v)

Min(a, b) == IF a <= b THEN a ELSE b

RECURSIVE Pow(_, _)
Pow(b, e) == IF e = 0 THEN 1 ELSE b * Pow(b, e - 1)

------------------------------------------------------------------------------
(* RateLimitConfig *)

DefaultConfig ==
    [max_retries    |-> 5,
     initial_delay  |-> 1 * TimeScale,
     max_delay      |-> 3600 * TimeScale,
     backoff_factor |-> 2,
     threshold_num  |-> 1,  threshold_den |-> 10,
     enable_jitter  |-> TRUE,
     jitter_num     |-> 1,  jitter_den    |-> 10]

\* configurations of the governor in the execution specifications
MainConfigs ==
    { [DefaultConfig EXCEPT !.max_retries = n, !.max_delay = 2 * TimeScale,
                            !.enable_jitter = j] :
        n \in 1..MaxRetriesBound, j \in BOOLEAN }

\* configurations for the direct calls of get_delay and _should_retry
PureConfigs ==
    { [DefaultConfig EXCEPT !.max_retries = n,
                            !.max_delay = m * TimeScale, !.backoff_factor = f,
                            !.threshold_num = tn,
                            !.enable_jitter = j, !.jitter_num = jn] :
        n \in 1..2, m \in {1, 4}, f \in {2, 3},
        tn \in {1, 5}, j \in BOOLEAN, jn \in {1, 5} }

------------------------------------------------------------------------------
(* BackoffStrategy.get_delay: the set of values it can return (the jitter is *)
(* random.uniform(0, jitter_factor * delay), any point of that interval).    *)

BaseDelay(cfg, attempt) ==
    Min(cfg.initial_delay * Pow(cfg.backoff_factor, attempt), cfg.max_delay)

Jitters(cfg, delay) == 0 .. ((cfg.jitter_num * delay) \div cfg.jitter_den)

\* jitter spread around the delay instead of added to it
GetDelay_Symmetric(cfg, attempt) ==
    LET delay == BaseDelay(cfg, attempt)
    IN  IF cfg.enable_jitter
        THEN { delay + jitter : jitter \in Jitters(cfg, delay) }
             \cup { delay - jitter : jitter \in Jitters(cfg, delay) }
        ELSE { delay }

GetDelay(cfg, attempt) ==
    LET delay == BaseDelay(cfg, attempt)
    IN  IF cfg.enable_jitter
        THEN { delay + jitter : jitter \in Jitters(cfg, delay) }
        ELSE { delay }

------------------------------------------------------------------------------
(* Header values are strings, modelled as sequences of characters; int()    *)
(* accepts the non-empty digit strings and raises ValueError on the others. *)

DigitChars == {"0", "1", "2", "3", "4", "5", "6", "7", "8", "9"}

DigitVal(ch) ==
    CASE ch = "0" -> 0 [] ch = "1" -> 1 [] ch = "2" -> 2 [] ch = "3" -> 3
      [] ch = "4" -> 4 [] ch = "5" -> 5 [] ch = "6" -> 6 [] ch = "7" -> 7
      [] ch = "8" -> 8 [] ch = "9" -> 9

IsIntLiteral(s) == Len(s) > 0 /\ \A i \in 1..Len(s) : s[i] \in DigitChars

RECURSIVE IntOf(_)
IntOf(s) ==
    IF Len(s) = 0 THEN 0
    ELSE 10 * IntOf(SubSeq(s, 1, Len(s) - 1)) + DigitVal(s[Len(s)])

\* datetime.fromtimestamp(seconds, timezone.utc): a datetime object (always
\* truthy, unlike the integer 0), here the instant in model time units
FromTimestamp(seconds) == [instant |-> seconds * TimeScale]

HeaderKeys == {"X-RateLimit-Limit", "X-RateLimit-Remaining",
               "X-RateLimit-Reset", "X-RateLimit-Used"}

\* headers.get(key, 0) followed by int(): <<ok, value>>
HeaderInt(headers, key) ==
    IF key \notin DOMAIN headers THEN [ok |-> TRUE, val |-> 0]
    ELSE IF IsIntLiteral(headers[key])
         THEN [ok |-> TRUE, val |-> IntOf(headers[key])]
         ELSE [ok |-> FALSE, val |-> 0]

\* RateLimitManager._parse_rate_limit_headers
ParseRateLimitHeaders(headers) ==
    LET lim == HeaderInt(headers, "X-RateLimit-Limit")
        rem == HeaderInt(headers, "X-RateLimit-Remaining")
        rst == HeaderInt(headers, "X-RateLimit-Reset")
        usd == HeaderInt(headers, "X-RateLimit-Used")
    IN  IF lim.ok /\ rem.ok /\ rst.ok /\ usd.ok
        THEN [limit     |-> lim.val,
              remaining |-> rem.val,
              reset     |-> FromTimestamp(rst.val),
              used      |-> usd.val]
        ELSE EmptyDict

\* truth value of a dict / of the 'reset' entry of a snapshot
DictTruthy(d) == DOMAIN d # {}

\* rate_info.get('reset'): None when the key is missing; a datetime is truthy
ResetTruthy(rate_info) == "reset" \in DOMAIN rate_info

------------------------------------------------------------------------------
(* RateLimitManager._should_retry: the value returned or the error raised *)

NoError == "none"

\* the ratio compared with < instead of <=
ShouldRetry_Strict(counts, cfg, id, rate_info) ==
    IF id \notin DOMAIN counts
    THEN [raised |-> "KeyError", val |-> FALSE]
    ELSE IF counts[id] >= cfg.max_retries
    THEN [raised |-> NoError, val |-> FALSE]
    ELSE IF rate_info.limit = 0
    THEN [raised |-> "ZeroDivisionError", val |-> FALSE]
    ELSE [raised |-> NoError,
          val |-> rate_info.remaining * cfg.threshold_den
                     < cfg.threshold_num * rate_info.limit]

\* the proactive decision never taken
ShouldRetry_Never(counts, cfg, id, rate_info) ==
    IF id \notin DOMAIN counts
    THEN [raised |-> "KeyError", val |-> FALSE]
    ELSE IF counts[id] >= cfg.max_retries
    THEN [raised |-> NoError, val |-> FALSE]
    ELSE IF rate_info.limit = 0
    THEN [raised |-> "ZeroDivisionError", val |-> FALSE]
    ELSE [raised |-> NoError, val |-> FALSE]

ShouldRetry(counts, cfg, id, rate_info) ==
    IF id \notin DOMAIN counts
    THEN [raised |-> "KeyError", val |-> FALSE]
    ELSE IF counts[id] >= cfg.max_retries
    THEN [raised |-> NoError, val |-> FALSE]
    ELSE IF rate_info.limit = 0
    THEN [raised |-> "ZeroDivisionError", val |-> FALSE]
    ELSE [raised |-> NoError,
          val |-> rate_info.remaining * cfg.threshold_den
                     <= cfg.threshold_num * rate_info.limit]

------------------------------------------------------------------------------
(* What the caller-supplied operation can do at one invocation *)

\* header carriers (result.headers) an operation result can expose
FullHeaders(lim, rem, rst, usd) ==
    [k \in HeaderKeys |->
        CASE k = "X-RateLimit-Limit" -> lim
          [] k = "X-RateLimit-Remaining" -> rem
          [] k = "X-RateLimit-Reset" -> rst
          [] k = "X-RateLimit-Used" -> usd]

HeadersPlenty == FullHeaders(<<"1", "0">>, <<"5">>, <<"3">>, <<"5">>)
HeadersLow == FullHeaders(<<"1", "0">>, <<"1">>, <<"1">>, <<"9">>)
HeadersNoQuota == [k \in {"X-RateLimit-Reset"} |-> <<"1">>]
HeadersBad == [k \in {"X-RateLimit-Limit"} |-> <<"x">>]

\* results: hasattr(result, 'headers') and result.headers
Results ==
    { [name |-> "plain", has_headers |-> FALSE, headers |-> EmptyDict],
      [name |-> "plenty", has_headers |-> TRUE, headers |-> HeadersPlenty],
      [name |-> "low", has_headers |-> TRUE, headers |-> HeadersLow],
      [name |-> "noquota", has_headers |-> TRUE, headers |-> HeadersNoQuota],
      [name |-> "bad", has_headers |-> TRUE, headers |-> HeadersBad] }

NoResult == [name |-> "none", has_headers |-> FALSE, headers |-> EmptyDict]

\* exceptions: str(e) as a sequence of words
Exc(type, msg) == [type |-> type, msg |-> msg]

NoExc == Exc("none", <<>>)

OperationErrors ==
    { Exc("Exception", <<"rate", "limit", "exceeded">>),
      Exc("RateLimitException", <<"Rate", "limit", "exceeded.", "0/10", "remaining.">>),
      Exc("Exception", <<"rate", "limit">>),
      Exc("ValueError", <<"boom">>) }

\* str.lower(), word by word
LowerWord(w) ==
    CASE w = "Rate" -> "rate"
      [] w = "Operation" -> "operation"
      [] OTHER -> w

Lower(msg) == [i \in 1..Len(msg) |-> LowerWord(msg[i])]

\* the words of the signature; the last one may carry trailing characters
SignatureEnds == {"exceeded", "exceeded."}

\* "rate limit exceeded" in str(e).lower()
IsRateLimitError(e) ==
    LET m == Lower(e.msg)
    IN  \E i \in 1..Len(m) :
            /\ i + 2 <= Len(m)
            /\ m[i] = "rate"
            /\ m[i + 1] = "limit"
            /\ m[i + 2] \in SignatureEnds

\* errors raised by the governor's own code
ZeroDivisionError == Exc("ZeroDivisionError", <<"division", "by", "zero">>)

KeyError(id) == Exc("KeyError", <<id>>)

RetryExhausted(id, n) ==
    [type |-> "RuntimeError",
     msg |-> <<"Operation", id, "failed", "after", ToString(n), "retries">>]

InternalError(name, id) ==
    IF name = "ZeroDivisionError" THEN ZeroDivisionError ELSE KeyError(id)

\* datetime.now(timezone.utc) as read by _wait_for_reset, in model time units
NowValues == {0, 2 * TimeScale + 5}

\* sleeping for the distance to the reset time, whichever comes first
WaitForReset_Abs(reset_time, now) ==
    IF reset_time.instant > now THEN reset_time.instant - now
    ELSE now - reset_time.instant

\* RateLimitManager._wait_for_reset: the duration slept (0: no sleep)
WaitForReset(reset_time, now) ==
    IF reset_time.instant > now THEN reset_time.instant - now ELSE 0

------------------------------------------------------------------------------
(* Operation identifiers *)

None == "<None>"

\* str(hash(operation)) of the one operation object of the model
HashId == "hash"

\* the operation_id arguments a caller passes
OpArgs == {"a", "", None}

Falsy(arg) == arg = None \/ arg = ""

\* op_id = operation_id or str(hash(operation))
\* every call keyed by the hash of the operation, the supplied id ignored
OpIdOf_AlwaysHash(arg) == HashId

OpIdOf(arg) == IF Falsy(arg) THEN HashId ELSE arg

------------------------------------------------------------------------------
(* History records *)

RaiseEv(e) == [ev |-> "raise", exc |-> e, res |-> NoResult, why |-> "", dur |-> 0]

ReturnEv(r) == [ev |-> "return", exc |-> NoExc, res |-> r, why |-> "", dur |-> 0]

\* a call of time.sleep(d), or of _wait_for_reset (why = "reset", d = 0: no sleep)
WaitEv(why, d) == [ev |-> "wait", exc |-> NoExc, res |-> NoResult, why |-> why, dur |-> d]

NoOutcome == [kind |-> "none", res |-> NoResult, exc |-> NoExc]

Returned(r) == [kind |-> "result", res |-> r, exc |-> NoExc]

Raised(kind, e) == [kind |-> kind, res |-> NoResult, exc |-> e]

NoCall == [op |-> "none", arg |-> "", pre_counts |-> EmptyDict,
           pre_limits |-> EmptyDict, snap |-> EmptyDict,
           attempt |-> 0, raised |-> NoError, val |-> FALSE, delay |-> 0]

CountOf(d, k) == IF k \in DOMAIN d THEN d[k] ELSE 0

\* failed invocations are counted up to this cap
MaxFailed == MaxRetriesBound + Cardinality(Threads)

------------------------------------------------------------------------------
(* Initial state: RateLimitManager.__init__ *)

InitCall ==
    /\ pc = [t \in Threads |-> "idle"]
    /\ op_id = [t \in Threads |-> ""]
    /\ exc = [t \in Threads |-> NoExc]
    /\ tmp = [t \in Threads |-> 0]
    /\ outcome = [t \in Threads |-> NoOutcome]
    /\ trace = [t \in Threads |-> <<>>]
    /\ c0 = [t \in Threads |-> -1]
    /\ failed = EmptyDict
    /\ last = NoCall

Init ==
    /\ config \in MainConfigs
    /\ retry_counts = EmptyDict
    /\ rate_limits = EmptyDict
    /\ InitCall

------------------------------------------------------------------------------
(* execute_with_retry, thread t *)

\* lines 121-122: resolve the id, setdefault the counter
Call(t, arg) ==
    /\ pc[t] = "idle"
    /\ LET id == OpIdOf(arg)
       IN  /\ op_id' = [op_id EXCEPT ![t] = id]
           /\ c0' = [c0 EXCEPT ![t] = IF id \in DOMAIN retry_counts
                                       THEN retry_counts[id] ELSE -1]
           /\ retry_counts' = Setdefault(retry_counts, id, 0)
           /\ failed' = Setdefault(failed, id, 0)
    /\ pc' = [pc EXCEPT ![t] = "check"]
    /\ trace' = [trace EXCEPT ![t] = <<>>]
    /\ outcome' = [outcome EXCEPT ![t] = NoOutcome]
    /\ last' = [NoCall EXCEPT !.op = "execute_with_retry", !.arg = arg]
    /\ UNCHANGED <<config, rate_limits, exc, tmp>>

\* the loop condition written with <= instead of <
LoopCheck_OffByOne(t) ==
    /\ pc[t] = "check"
    /\ LET id == op_id[t]
       IN  IF id \notin DOMAIN retry_counts
           THEN /\ pc' = [pc EXCEPT ![t] = "done"]
                /\ outcome' = [outcome EXCEPT ![t] = Raised("propagated", KeyError(id))]
           ELSE IF retry_counts[id] <= config.max_retries
           THEN /\ pc' = [pc EXCEPT ![t] = "invoke"]
                /\ UNCHANGED outcome
           ELSE /\ pc' = [pc EXCEPT ![t] = "done"]
                /\ outcome' = [outcome EXCEPT ![t] =
                       Raised("exhausted", RetryExhausted(id, config.max_retries))]
    /\ UNCHANGED <<config, retry_counts, rate_limits, op_id, exc, tmp, trace,
                   c0, failed, last>>

\* line 124 (loop condition) and lines 170-172 (loop exit)
LoopCheck(t) ==
    /\ pc[t] = "check"
    /\ LET id == op_id[t]
       IN  IF id \notin DOMAIN retry_counts
           THEN /\ pc' = [pc EXCEPT ![t] = "done"]
                /\ outcome' = [outcome EXCEPT ![t] = Raised("propagated", KeyError(id))]
           ELSE IF retry_counts[id] < config.max_retries
           THEN /\ pc' = [pc EXCEPT ![t] = "invoke"]
                /\ UNCHANGED outcome
           ELSE /\ pc' = [pc EXCEPT ![t] = "done"]
                /\ outcome' = [outcome EXCEPT ![t] =
                       Raised("exhausted", RetryExhausted(id, config.max_retries))]
    /\ UNCHANGED <<config, retry_counts, rate_limits, op_id, exc, tmp, trace,
                   c0, failed, last>>

\* line 126, operation() raises e: control goes to the except clause
InvokeRaises(t, e) ==
    /\ pc[t] = "invoke"
    /\ CountOf(failed, op_id[t]) < MaxFailed
    /\ trace' = [trace EXCEPT ![t] = Append(@, RaiseEv(e))]
    /\ exc' = [exc EXCEPT ![t] = e]
    /\ failed' = Put(failed, op_id[t], CountOf(failed, op_id[t]) + 1)
    /\ pc' = [pc EXCEPT ![t] = "except"]
    /\ UNCHANGED <<config, retry_counts, rate_limits, op_id, tmp, outcome, c0, last>>

\* lines 126-147, operation() returns r
InvokeReturns(t, r) ==
    /\ pc[t] = "invoke"
    /\ LET id == op_id[t]
           rate_info == IF r.has_headers
                        THEN ParseRateLimitHeaders(r.headers) ELSE EmptyDict
           stored == r.has_headers /\ DictTruthy(rate_info)
           sr == IF stored THEN ShouldRetry(retry_counts, config, id, rate_info)
                 ELSE [raised |-> NoError, val |-> FALSE]
       IN  /\ rate_limits' = IF stored THEN Put(rate_limits, id, rate_info)
                             ELSE rate_limits
           /\ IF sr.raised # NoError
              THEN \* the error is raised inside the try block
                   /\ exc' = [exc EXCEPT ![t] = InternalError(sr.raised, id)]
                   /\ trace' = [trace EXCEPT ![t] = Append(@, ReturnEv(r))]
                   /\ pc' = [pc EXCEPT ![t] = "except"]
                   /\ UNCHANGED outcome
              ELSE /\ IF sr.val
                      THEN \E delay \in GetDelay(config, retry_counts[id]) :
                             trace' = [trace EXCEPT ![t] =
                                 Append(Append(@, ReturnEv(r)), WaitEv("proactive", delay))]
                      ELSE trace' = [trace EXCEPT ![t] = Append(@, ReturnEv(r))]
                   /\ outcome' = [outcome EXCEPT ![t] = Returned(r)]
                   /\ pc' = [pc EXCEPT ![t] = "done"]
                   /\ UNCHANGED exc
    /\ UNCHANGED <<config, retry_counts, op_id, tmp, c0, failed, last>>

\* line 150, first half of "self.retry_counts[op_id] += 1": load the counter
ExceptLoad(t) ==
    /\ pc[t] = "except"
    /\ LET id == op_id[t]
       IN  IF id \notin DOMAIN retry_counts
           THEN /\ pc' = [pc EXCEPT ![t] = "done"]
                /\ outcome' = [outcome EXCEPT ![t] = Raised("propagated", KeyError(id))]
                /\ UNCHANGED tmp
           ELSE /\ tmp' = [tmp EXCEPT ![t] = retry_counts[id]]
                /\ pc' = [pc EXCEPT ![t] = "store"]
                /\ UNCHANGED outcome
    /\ UNCHANGED <<config, retry_counts, rate_limits, op_id, exc, trace, c0,
                   failed, last>>

\* the wait after a rate-limit failure, lines 153-166
ReactiveWaits(cfg, limits, counts, id) ==
    LET rate_info == IF id \in DOMAIN limits THEN limits[id] ELSE EmptyDict
    IN  IF DictTruthy(rate_info) /\ ResetTruthy(rate_info)
        THEN { WaitEv("reset", WaitForReset(rate_info.reset, now)) : now \in NowValues }
        ELSE { WaitEv("backoff", d) : d \in GetDelay(cfg, counts[id]) }

\* line 150: every exception caught by the except clause counts as a retry
FailureCount_Double(count, e) == count + 2

FailureCount_RateLimitOnly(count, e) ==
    IF IsRateLimitError(e) THEN count + 1 ELSE count

\* the increment left out
FailureCount_None(count, e) == count

FailureCount(count, e) == count + 1

\* line 152: only a failure with the rate-limit signature is waited on and retried
IsRetried_All(e) == TRUE

IsRetried_None(e) == FALSE

IsRetried(e) == IsRateLimitError(e)

\* line 150, second half: store the incremented counter; lines 152-168
ExceptStore(t) ==
    /\ pc[t] = "store"
    /\ LET id == op_id[t]
           counts == Put(retry_counts, id, FailureCount(tmp[t], exc[t]))
       IN  /\ retry_counts' = counts
           /\ IF IsRetried(exc[t])
              THEN /\ \E w \in ReactiveWaits(config, rate_limits, counts, id) :
                         trace' = [trace EXCEPT ![t] = Append(@, w)]
                   /\ pc' = [pc EXCEPT ![t] = "check"]
                   /\ UNCHANGED outcome
              ELSE /\ outcome' = [outcome EXCEPT ![t] = Raised("propagated", exc[t])]
                   /\ pc' = [pc EXCEPT ![t] = "done"]
                   /\ UNCHANGED trace
    /\ exc' = [exc EXCEPT ![t] = NoExc]
    /\ UNCHANGED <<config, rate_limits, op_id, tmp, c0, failed, last>>

\* the caller receives the result or the error
Return(t) ==
    /\ pc[t] = "done"
    /\ pc' = [pc EXCEPT ![t] = "idle"]
    /\ op_id' = [op_id EXCEPT ![t] = ""]
    /\ tmp' = [tmp EXCEPT ![t] = 0]
    /\ outcome' = [outcome EXCEPT ![t] = NoOutcome]
    /\ trace' = [trace EXCEPT ![t] = <<>>]
    /\ c0' = [c0 EXCEPT ![t] = -1]
    /\ UNCHANGED <<config, retry_counts, rate_limits, exc, failed, last>>

------------------------------------------------------------------------------
(* reset_counts and get_rate_limit_info, called between executions *)

AllIdle == \A t \in Threads : pc[t] = "idle"

QueryArgs == OpArgs \cup {HashId}

ResetDict_ClearAll(d, arg) == EmptyDict

ResetDict(d, arg) == IF Falsy(arg) THEN EmptyDict ELSE Pop(d, arg)

ResetCounts(arg) ==
    /\ AllIdle
    /\ retry_counts' = ResetDict(retry_counts, arg)
    /\ failed' = ResetDict(failed, arg)
    /\ last' = [NoCall EXCEPT !.op = "reset_counts", !.arg = arg,
                              !.pre_counts = retry_counts,
                              !.pre_limits = rate_limits]
    /\ UNCHANGED <<config, rate_limits, pc, op_id, exc, tmp, outcome, trace, c0>>

\* the lookup written with pop instead of get
GetRateLimitInfo_Pop(arg) ==
    /\ AllIdle
    /\ arg # None
    /\ last' = [NoCall EXCEPT !.op = "get_rate_limit_info", !.arg = arg,
                              !.pre_counts = retry_counts,
                              !.pre_limits = rate_limits,
                              !.snap = IF arg \in DOMAIN rate_limits
                                       THEN rate_limits[arg] ELSE EmptyDict]
    /\ rate_limits' = Pop(rate_limits, arg)
    /\ UNCHANGED <<config, retry_counts, pc, op_id, exc, tmp,
                   outcome, trace, c0, failed>>

GetRateLimitInfo(arg) ==
    /\ AllIdle
    /\ arg # None
    /\ last' = [NoCall EXCEPT !.op = "get_rate_limit_info", !.arg = arg,
                              !.pre_counts = retry_counts,
                              !.pre_limits = rate_limits,
                              !.snap = IF arg \in DOMAIN rate_limits
                                       THEN rate_limits[arg] ELSE EmptyDict]
    /\ UNCHANGED <<config, retry_counts, rate_limits, pc, op_id, exc, tmp,
                   outcome, trace, c0, failed>>

------------------------------------------------------------------------------
(* Single-threaded use: one caller, calls made one after the other *)

Next ==
    \/ \E arg \in OpArgs : Call(MainThread, arg)
    \/ LoopCheck(MainThread)
    \/ \E e \in OperationErrors : InvokeRaises(MainThread, e)
    \/ \E r \in Results : InvokeReturns(MainThread, r)
    \/ ExceptLoad(MainThread)
    \/ ExceptStore(MainThread)
    \/ Return(MainThread)
    \/ \E arg \in QueryArgs : ResetCounts(arg)
    \/ \E arg \in QueryArgs : GetRateLimitInfo(arg)

Spec == Init /\ [][Next]_vars

TypeOK ==
    /\ config \in MainConfigs
    /\ \A id \in DOMAIN retry_counts : retry_counts[id] \in Nat
    /\ \A t \in Threads : pc[t] \in {"idle", "check", "invoke", "except", "store", "done"}

------------------------------------------------------------------------------
(* Concurrent use: the threads share one governor and run execute_with_retry *)
(* on the same operation id; the code takes no lock.                         *)

ConcConfigs == { cfg \in MainConfigs : ~cfg.enable_jitter }

ConcResults == { r \in Results : ~r.has_headers }

InitConc ==
    /\ config \in ConcConfigs
    /\ retry_counts = EmptyDict
    /\ rate_limits = EmptyDict
    /\ InitCall

NextConc ==
    \E t \in Threads :
        \/ Call(t, "a")
        \/ LoopCheck(t)
        \/ \E e \in OperationErrors : InvokeRaises(t, e)
        \/ \E r \in ConcResults : InvokeReturns(t, r)
        \/ ExceptLoad(t)
        \/ ExceptStore(t)
        \/ Return(t)

SpecConc == InitConc /\ [][NextConc]_vars

------------------------------------------------------------------------------
(* Direct calls of BackoffStrategy.get_delay and of _should_retry, as the   *)
(* tests make them, on a governor whose counters were set beforehand.       *)

PureSnapshots ==
    { [limit |-> l, remaining |-> r, reset |-> FromTimestamp(0), used |-> 0] :
        l \in {0, 10, 5000}, r \in {0, 1, 2, 5, 50, 4000} }

InitPure ==
    /\ config \in PureConfigs
    /\ retry_counts \in {EmptyDict} \cup [{"a"} -> 0..MaxCountBound]
    /\ rate_limits = EmptyDict
    /\ InitCall

CallGetDelay(attempt) ==
    /\ \E delay \in GetDelay(config, attempt) :
          last' = [NoCall EXCEPT !.op = "get_delay", !.attempt = attempt,
                                 !.delay = delay,
                                 !.pre_counts = retry_counts,
                                 !.pre_limits = rate_limits]
    /\ UNCHANGED <<config, retry_counts, rate_limits, pc, op_id, exc, tmp,
                   outcome, trace, c0, failed>>

CallShouldRetry(id, rate_info) ==
    /\ LET sr == ShouldRetry(retry_counts, config, id, rate_info)
       IN  last' = [NoCall EXCEPT !.op = "_should_retry", !.arg = id,
                                  !.snap = rate_info,
                                  !.raised = sr.raised, !.val = sr.val,
                                  !.pre_counts = retry_counts,
                                  !.pre_limits = rate_limits]
    /\ UNCHANGED <<config, retry_counts, rate_limits, pc, op_id, exc, tmp,
                   outcome, trace, c0, failed>>

NextPure ==
    \/ \E attempt \in 0..MaxAttempt : CallGetDelay(attempt)
    \/ \E rate_info \in PureSnapshots : CallShouldRetry("a", rate_info)

SpecPure == InitPure /\ [][NextPure]_vars

------------------------------------------------------------------------------
(* Reading the history of the running call *)

IsInvocation(e) == e.ev \in {"raise", "return"}

Invocations(tr) == SelectSeq(tr, IsInvocation)

IsRateLimitRaise(e) == e.ev = "raise" /\ IsRateLimitError(e.exc)

IsOtherRaise(e) == e.ev = "raise" /\ ~IsRateLimitError(e.exc)

IsRaise(e) == e.ev = "raise"

NumRaises(tr) == Len(SelectSeq(tr, IsRaise))

\* the counter of the call's id when the call started, an absent one read as 0
StartCount(t) == IF c0[t] = -1 THEN 0 ELSE c0[t]

Done(t) == pc[t] = "done"

------------------------------------------------------------------------------
\* C1: with no recorded counter for the id and an operation that raises a
\* rate-limit failure at every invocation, execute_with_retry invokes the
\* operation exactly max_retries times and ends in the retry-exhausted error.
C1_ExhaustedAfterN ==
    LET t == MainThread
        inv == Invocations(trace[t])
    IN  (/\ Done(t)
         /\ c0[t] = -1
         /\ \A i \in 1..Len(inv) : IsRateLimitRaise(inv[i]))
        => /\ Len(inv) = config.max_retries
           /\ outcome[t] = Raised("exhausted",
                                  RetryExhausted(op_id[t], config.max_retries))

C1_Witness ==
    LET t == MainThread
        inv == Invocations(trace[t])
    IN  /\ Done(t)
        /\ c0[t] = -1
        /\ config.max_retries = 2
        /\ Len(inv) = 2
        /\ \A i \in 1..Len(inv) : IsRateLimitRaise(inv[i])
        /\ outcome[t].kind = "exhausted"

\* C2 as stated: for every max_retries >= 1, with no recorded counter, an
\* operation that raises a rate-limit failure once and then succeeds is
\* invoked exactly twice and the second result is returned.
C2_Original ==
    LET t == MainThread
        inv == Invocations(trace[t])
    IN  (/\ Done(t)
         /\ c0[t] = -1
         /\ Len(inv) >= 1
         /\ IsRateLimitRaise(inv[1])
         /\ Len(inv) >= 2 => inv[2].ev = "return")
        => /\ Len(inv) = 2
           /\ outcome[t] = Returned(inv[2].res)

\* C2 amended: with max_retries >= 2 the operation is invoked exactly twice
\* and the second result is returned, unless its headers parse to a snapshot
\* with limit 0, where the call ends in ZeroDivisionError; with
\* max_retries = 1 the call ends in the retry-exhausted error after one
\* invocation.
C2_RetryThenSuccess ==
    LET t == MainThread
        inv == Invocations(trace[t])
    IN  (/\ Done(t)
         /\ c0[t] = -1
         /\ Len(inv) >= 1
         /\ IsRateLimitRaise(inv[1])
         /\ Len(inv) >= 2 => inv[2].ev = "return")
        => IF config.max_retries = 1
           THEN /\ Len(inv) = 1
                /\ outcome[t].kind = "exhausted"
           ELSE /\ Len(inv) = 2
                /\ LET r == inv[2].res
                       snap == ParseRateLimitHeaders(r.headers)
                   IN  IF r.has_headers /\ DictTruthy(snap) /\ snap.limit = 0
                       THEN outcome[t] = Raised("propagated", ZeroDivisionError)
                       ELSE outcome[t] = Returned(r)

C2_Witness ==
    LET t == MainThread
        inv == Invocations(trace[t])
    IN  /\ Done(t)
        /\ c0[t] = -1
        /\ config.max_retries = 2
        /\ Len(inv) = 2
        /\ IsRateLimitRaise(inv[1])
        /\ inv[2].ev = "return"
        /\ inv[2].res.name = "plenty"
        /\ outcome[t] = Returned(inv[2].res)

\* C3: a failure of the operation whose message lacks the rate-limit
\* signature ends the call at once: nothing follows it in the history of the
\* call (no wait, no further invocation) and the call ends by propagating
\* that same error, never the retry-exhausted error.
C3_OtherFailurePropagates ==
    LET t == MainThread
        tr == trace[t]
    IN  \A i \in 1..Len(tr) :
            IsOtherRaise(tr[i])
            => /\ i = Len(tr)
               /\ pc[t] \in {"except", "store", "done"}
               /\ Done(t) => outcome[t] = Raised("propagated", tr[i].exc)

C3_Witness ==
    LET t == MainThread
        tr == trace[t]
    IN  /\ Done(t)
        /\ Len(tr) = 3
        /\ IsOtherRaise(tr[3])
        /\ tr[2].ev = "wait"
        /\ op_id[t] \in DOMAIN rate_limits
        /\ retry_counts[op_id[t]] = config.max_retries
        /\ outcome[t] = Raised("propagated", tr[3].exc)

\* C4 as stated: after a non-rate-limit failure is propagated, the counter of
\* the id is what it was before the call.
C4_Original ==
    LET t == MainThread
        tr == trace[t]
    IN  (/\ Done(t)
         /\ Len(tr) >= 1
         /\ IsOtherRaise(tr[Len(tr)]))
        => retry_counts[op_id[t]] = StartCount(t)

\* C4 amended: a non-rate-limit failure consumes one retry like any failed
\* invocation: after it is propagated, the counter of the id is its value at
\* the start of the call plus the number of failed invocations of the call,
\* the propagated one included (so one more than before the call when the
\* first invocation fails that way).
C4_OtherFailureCounts ==
    LET t == MainThread
        tr == trace[t]
    IN  (/\ Done(t)
         /\ Len(tr) >= 1
         /\ IsOtherRaise(tr[Len(tr)]))
        => /\ retry_counts[op_id[t]] = StartCount(t) + NumRaises(tr)
           /\ Len(tr) = 1 => retry_counts[op_id[t]] = StartCount(t) + 1

C4_Witness ==
    LET t == MainThread
        tr == trace[t]
    IN  /\ Done(t)
        /\ Len(tr) = 1
        /\ IsOtherRaise(tr[1])
        /\ c0[t] = 1
        /\ retry_counts[op_id[t]] = 2
        /\ outcome[t].kind = "propagated"

\* C5: whenever an invocation completes without raising, the call returns
\* that result and the counter of the id is not changed by it, whatever the
\* result carries: no headers, complete headers, or headers with missing
\* quota fields (limit defaulting to 0).
C5_SuccessReturnsResult ==
    LET t == MainThread
        tr == trace[t]
        inv == Invocations(tr)
    IN  (/\ Done(t)
         /\ Len(inv) >= 1
         /\ inv[Len(inv)].ev = "return")
        => /\ outcome[t] = Returned(inv[Len(inv)].res)
           /\ retry_counts[op_id[t]] = StartCount(t) + NumRaises(tr)

\* C6: in single-threaded use every recorded counter stays within
\* 0..max_retries, at every point of an execution.
C6_CountInRange ==
    \A id \in DOMAIN retry_counts :
        /\ 0 <= retry_counts[id]
        /\ retry_counts[id] <= config.max_retries

C6_Witness ==
    /\ pc[MainThread] = "check"
    /\ config.max_retries = 2
    /\ c0[MainThread] = 1
    /\ retry_counts[op_id[MainThread]] = config.max_retries
    /\ \E id \in DOMAIN retry_counts :
          id # op_id[MainThread] /\ retry_counts[id] = config.max_retries

PendingIncrements(id) ==
    Cardinality({ t \in Threads : op_id[t] = id /\ pc[t] \in {"except", "store"} })

C8_SerializedCounter ==
    \A id \in DOMAIN retry_counts :
        /\ retry_counts[id] <= config.max_retries
        /\ retry_counts[id] + PendingIncrements(id) = CountOf(failed, id)

\* C9: with a recorded counter c and a snapshot whose limit is positive,
\* _should_retry returns false when c >= max_retries and otherwise returns
\* true exactly when remaining / limit <= rate_limit_threshold; it changes
\* neither the counters nor the snapshots.
C9_ShouldRetry ==
    (/\ last.op = "_should_retry"
     /\ last.arg \in DOMAIN last.pre_counts
     /\ last.snap.limit > 0)
    => /\ last.raised = NoError
       /\ last.pre_counts[last.arg] >= config.max_retries => ~last.val
       /\ last.pre_counts[last.arg] < config.max_retries
            => (last.val <=> last.snap.remaining * config.threshold_den
                               <= config.threshold_num * last.snap.limit)
       /\ retry_counts = last.pre_counts
       /\ rate_limits = last.pre_limits

\* remaining / limit equal to the threshold, below max_retries: true
C9_Witness ==
    /\ last.op = "_should_retry"
    /\ last.arg \in DOMAIN retry_counts
    /\ retry_counts[last.arg] < config.max_retries
    /\ last.snap.limit = 10
    /\ last.snap.remaining = 1
    /\ config.threshold_num = 1
    /\ last.val

------------------------------------------------------------------------------
\* C11: for a snapshot whose limit is 0 and a recorded counter below
\* max_retries, _should_retry returns false and raises no error.
C11_ZeroLimitGuarded ==
    (/\ last.op = "_should_retry"
     /\ last.arg \in DOMAIN last.pre_counts
     /\ last.pre_counts[last.arg] < config.max_retries
     /\ last.snap.limit = 0)
    => /\ last.raised = NoError
       /\ ~last.val

------------------------------------------------------------------------------
(* reset_counts called while an execute_with_retry call is in flight: from  *)
(* inside the operation callback (the call is at line 126) or from another  *)
(* thread (the call is anywhere).                                           *)

ResetCountsDuring(arg) ==
    /\ ~AllIdle
    /\ retry_counts' = ResetDict(retry_counts, arg)
    /\ failed' = ResetDict(failed, arg)
    /\ UNCHANGED <<config, rate_limits, pc, op_id, exc, tmp, outcome, trace,
                   c0, last>>

NextReset ==
    \/ Call(MainThread, "a")
    \/ LoopCheck(MainThread)
    \/ \E e \in OperationErrors : InvokeRaises(MainThread, e)
    \/ \E r \in Results : InvokeReturns(MainThread, r)
    \/ ExceptLoad(MainThread)
    \/ ExceptStore(MainThread)
    \/ Return(MainThread)
    \/ \E arg \in {"a", None} : ResetCountsDuring(arg)

SpecReset == InitConc /\ [][NextReset]_vars

\* C12: an absent counter is read as 0: when reset_counts removes the
\* counter of the id of a call in flight, the call still ends in a result,
\* in the operation's own error or in the retry-exhausted error, never in a
\* missing-key error.
C12_AbsentCounterIsZero ==
    LET t == MainThread
    IN  Done(t)
        => /\ outcome[t].kind \in {"result", "exhausted", "propagated"}
           /\ outcome[t].exc.type # "KeyError"

------------------------------------------------------------------------------
\* C13 as stated: every call invokes the operation at least once before it
\* ends, and ends in exactly one of Success, Exhausted, PropagatedFailure.
C13_Original ==
    LET t == MainThread
    IN  Done(t)
        => /\ Len(Invocations(trace[t])) >= 1
           /\ outcome[t].kind \in {"result", "exhausted", "propagated"}

\* C13 amended: a call whose counter is already at max_retries when it
\* starts goes from Idle straight to Exhausted without invoking the
\* operation; every other call invokes it at least once.  A call ends in
\* exactly one of Success (the last invocation returned), Exhausted (no
\* invocation, or the last one raised a rate-limit failure) or
\* PropagatedFailure (the last one raised another error, or the governor
\* itself raised on the success path).
C13_StateMachine ==
    LET t == MainThread
        inv == Invocations(trace[t])
    IN  Done(t)
        => /\ outcome[t].kind \in {"result", "exhausted", "propagated"}
           /\ (Len(inv) = 0) <=> (StartCount(t) >= config.max_retries)
           /\ Len(inv) = 0 => outcome[t].kind = "exhausted"
           /\ outcome[t].kind = "result"
                 => /\ Len(inv) >= 1
                    /\ inv[Len(inv)].ev = "return"
                    /\ outcome[t].res = inv[Len(inv)].res
           /\ outcome[t].kind = "propagated"
                 => /\ Len(inv) >= 1
                    /\ \/ /\ IsOtherRaise(inv[Len(inv)])
                          /\ outcome[t].exc = inv[Len(inv)].exc
                       \/ /\ inv[Len(inv)].ev = "return"
                          /\ outcome[t].exc = ZeroDivisionError
           /\ (outcome[t].kind = "exhausted" /\ Len(inv) >= 1)
                 => IsRateLimitRaise(inv[Len(inv)])

\* a call that finds the counter at max_retries: exhausted, no invocation
C13_Witness ==
    LET t == MainThread
    IN  /\ Done(t)
        /\ c0[t] = config.max_retries
        /\ trace[t] = <<>>
        /\ outcome[t].kind = "exhausted"

\* C14: counters persist across calls and only reset_counts clears them:
\* between calls the counter of an id equals the number of failed
\* invocations under that id since its last reset, and a call that finds
\* the counter at max_retries fails with the retry-exhausted error without
\* invoking the operation.
C14_CountersPersist ==
    LET t == MainThread
    IN  /\ AllIdle => \A id \in DOMAIN retry_counts :
                         retry_counts[id] = CountOf(failed, id)
        /\ (Done(t) /\ StartCount(t) >= config.max_retries)
            => /\ trace[t] = <<>>
               /\ outcome[t].kind = "exhausted"

------------------------------------------------------------------------------
\* C15: right after a rate-limit failure the wait is chosen from the stored
\* snapshot of the id: with a snapshot, the governor waits for its reset
\* time, sleeping the distance from now to it and not at all when it is
\* past; without one it sleeps delay(k), k the counter after the increment.
C15_ReactiveWait ==
    LET t == MainThread
        tr == trace[t]
        id == op_id[t]
    IN  (pc[t] = "check" /\ Len(tr) >= 2)
        => LET w == tr[Len(tr)]
           IN  /\ IsRateLimitRaise(tr[Len(tr) - 1])
               /\ w.ev = "wait"
               /\ IF id \in DOMAIN rate_limits
                  THEN /\ w.why = "reset"
                       /\ \E now \in NowValues :
                             w.dur = IF rate_limits[id].reset.instant > now
                                     THEN rate_limits[id].reset.instant - now
                                     ELSE 0
                  ELSE LET k == retry_counts[id]
                           scaled == config.initial_delay * Pow(config.backoff_factor, k)
                           base == IF scaled < config.max_delay
                                   THEN scaled ELSE config.max_delay
                       IN  /\ w.why = "backoff"
                           /\ base <= w.dur
                           /\ w.dur * config.jitter_den
                                 <= base * (config.jitter_den + config.jitter_num)
                           /\ ~config.enable_jitter => w.dur = base

\* a stored snapshot whose reset time is past: no sleep, no backoff
C15_Witness ==
    LET t == MainThread
        tr == trace[t]
    IN  /\ pc[t] = "check"
        /\ Len(tr) = 2
        /\ IsRateLimitRaise(tr[1])
        /\ op_id[t] \in DOMAIN rate_limits
        /\ tr[2].why = "reset"
        /\ tr[2].dur = 0

------------------------------------------------------------------------------
\* C16: when a successful invocation yields a parsed snapshot with
\* remaining / limit <= rate_limit_threshold (limit > 0), the call sleeps
\* once for delay(c), c the current counter of the id, and returns that
\* result: no further invocation and no increment of the counter.
LowQuota(r) ==
    /\ r.has_headers
    /\ \A k \in DOMAIN r.headers : IsIntLiteral(r.headers[k])
    /\ "X-RateLimit-Limit" \in DOMAIN r.headers
    /\ "X-RateLimit-Remaining" \in DOMAIN r.headers
    /\ IntOf(r.headers["X-RateLimit-Limit"]) > 0
    /\ IntOf(r.headers["X-RateLimit-Remaining"]) * config.threshold_den
          <= config.threshold_num * IntOf(r.headers["X-RateLimit-Limit"])

C16_ProactiveWait ==
    LET t == MainThread
        tr == trace[t]
        id == op_id[t]
    IN  \A i \in 1..Len(tr) :
           (tr[i].ev = "return" /\ LowQuota(tr[i].res))
           => LET c == retry_counts[id]
                  scaled == config.initial_delay * Pow(config.backoff_factor, c)
                  base == IF scaled < config.max_delay
                          THEN scaled ELSE config.max_delay
                  w == tr[i + 1]
              IN  /\ Len(tr) = i + 1
                  /\ w.ev = "wait"
                  /\ w.why = "proactive"
                  /\ base <= w.dur
                  /\ w.dur * config.jitter_den
                        <= base * (config.jitter_den + config.jitter_num)
                  /\ ~config.enable_jitter => w.dur = base
                  /\ Done(t)
                  /\ outcome[t] = Returned(tr[i].res)
                  /\ c = StartCount(t) + NumRaises(tr)

\* a proactive wait after one rate-limit failure: delay(1), result returned
C16_Witness ==
    LET t == MainThread
        tr == trace[t]
    IN  /\ Done(t)
        /\ Len(tr) = 4
        /\ IsRateLimitRaise(tr[1])
        /\ tr[3].ev = "return"
        /\ tr[4].why = "proactive"
        /\ tr[4].dur >= 2 * TimeScale
        /\ retry_counts[op_id[t]] = 1
        /\ outcome[t] = Returned(tr[3].res)

------------------------------------------------------------------------------
\* C17: the stored snapshot of an id is the one parsed from the most recent
\* successful invocation under that id whose headers converted: only such
\* an invocation changes it, and it overwrites it; a success without
\* headers or with a non-numeric header value leaves the snapshots as they
\* are, causes no wait and returns the result; get_rate_limit_info returns
\* the stored snapshot (empty if none) and changes no state.
Converts(r) ==
    /\ r.has_headers
    /\ \A k \in DOMAIN r.headers : IsIntLiteral(r.headers[k])

HeaderOr0(r, k) == IF k \in DOMAIN r.headers THEN IntOf(r.headers[k]) ELSE 0

SnapshotOf(r) ==
    [limit     |-> HeaderOr0(r, "X-RateLimit-Limit"),
     remaining |-> HeaderOr0(r, "X-RateLimit-Remaining"),
     reset     |-> [instant |-> HeaderOr0(r, "X-RateLimit-Reset") * TimeScale],
     used      |-> HeaderOr0(r, "X-RateLimit-Used")]

C17_LookupIsPure ==
    last.op = "get_rate_limit_info"
    => /\ last.snap = IF last.arg \in DOMAIN rate_limits
                      THEN rate_limits[last.arg] ELSE EmptyDict
       /\ rate_limits = last.pre_limits
       /\ retry_counts = last.pre_counts

C17_SnapshotStep ==
    LET t == MainThread
        n == Len(trace[t])
    IN  IF Len(trace'[t]) > n /\ trace'[t][n + 1].ev = "return"
        THEN LET r == trace'[t][n + 1].res
             IN  IF Converts(r)
                 THEN rate_limits' = [id \in DOMAIN rate_limits \cup {op_id[t]} |->
                                         IF id = op_id[t] THEN SnapshotOf(r)
                                         ELSE rate_limits[id]]
                 ELSE /\ rate_limits' = rate_limits
                      /\ Len(trace'[t]) = n + 1
                      /\ pc'[t] = "done"
                      /\ outcome'[t] = Returned(r)
        ELSE rate_limits' = rate_limits

C17_LatestSnapshot == []C17_LookupIsPure /\ [][C17_SnapshotStep]_vars

\* a success with a non-numeric header after a snapshot was stored
C17_Witness ==
    LET t == MainThread
    IN  /\ Done(t)
        /\ outcome[t].kind = "result"
        /\ outcome[t].res.name = "bad"
        /\ op_id[t] \in DOMAIN rate_limits
        /\ rate_limits[op_id[t]].remaining = 1
        /\ trace[t][Len(trace[t])].ev = "return"

------------------------------------------------------------------------------
(* Single-threaded use in which every invocation of the operation and every *)
(* wait comes back: a call in flight always takes its next step.            *)

Progress(t) ==
    \/ LoopCheck(t)
    \/ \E e \in OperationErrors : InvokeRaises(t, e)
    \/ \E r \in Results : InvokeReturns(t, r)
    \/ ExceptLoad(t)
    \/ ExceptStore(t)

NextLive ==
    \/ Call(MainThread, "a")
    \/ Progress(MainThread)
    \/ Return(MainThread)
    \/ ResetCounts("a")

SpecLive == InitConc /\ [][NextLive]_vars /\ WF_vars(Progress(MainThread))

\* C18: a call invokes the operation at most max_retries - c0 times, c0 the
\* counter of the id when the call starts (0 if absent), and it terminates.
C18_InvocationBound ==
    LET t == MainThread
    IN  pc[t] # "idle"
        => Len(Invocations(trace[t])) <= config.max_retries - StartCount(t)

C18_Terminates ==
    /\ []C18_InvocationBound
    /\ (pc[MainThread] # "idle") ~> Done(MainThread)

\* a call that starts at 1 of 2 and uses its single invocation
C18_Witness ==
    LET t == MainThread
    IN  /\ Done(t)
        /\ config.max_retries = 2
        /\ c0[t] = 1
        /\ Len(Invocations(trace[t])) = 1
        /\ outcome[t].kind = "exhausted"

------------------------------------------------------------------------------
\* C19: every rate-limit failure is followed by exactly one reactive wait
\* step (a sleep for the backoff delay, or the wait for the reset time)
\* before anything else happens, the failure that brings the counter to
\* max_retries included: the retry-exhausted error comes after that wait,
\* and a call has as many reactive waits as rate-limit failures.
IsReactiveWait(e) == e.ev = "wait" /\ e.why \in {"reset", "backoff"}

C19_WaitAfterEachFailure ==
    LET t == MainThread
        tr == trace[t]
        handled == pc[t] \notin {"except", "store"}
    IN  /\ \A i \in 1..Len(tr) :
              /\ (IsRateLimitRaise(tr[i]) /\ (i < Len(tr) \/ handled))
                    => /\ i + 1 <= Len(tr)
                       /\ IsReactiveWait(tr[i + 1])
                       /\ i + 2 <= Len(tr) => IsInvocation(tr[i + 2])
              /\ IsReactiveWait(tr[i]) => (i > 1 /\ IsRateLimitRaise(tr[i - 1]))
        /\ handled
              => Len(SelectSeq(tr, IsReactiveWait)) = Len(SelectSeq(tr, IsRateLimitRaise))
        /\ (Done(t) /\ outcome[t].kind = "exhausted" /\ Len(tr) >= 1)
              => /\ IsReactiveWait(tr[Len(tr)])
                 /\ retry_counts[op_id[t]] = config.max_retries

\* exhausted after two rate-limit failures, each followed by its wait
C19_Witness ==
    LET t == MainThread
        tr == trace[t]
    IN  /\ Done(t)
        /\ outcome[t].kind = "exhausted"
        /\ Len(tr) = 4
        /\ IsRateLimitRaise(tr[1]) /\ IsReactiveWait(tr[2])
        /\ IsRateLimitRaise(tr[3]) /\ IsReactiveWait(tr[4])
        /\ tr[4].why = "backoff"

------------------------------------------------------------------------------
\* C20: operation ids are independent: a call of execute_with_retry with a
\* supplied non-empty id A leaves the retry count and the stored snapshot of
\* every other id B unchanged, whatever its outcome, and its outcome is
\* determined by A's own counter at the start and by what the operation did,
\* not by the state recorded for B.
SameEntry(d, e, k) ==
    /\ (k \in DOMAIN d) <=> (k \in DOMAIN e)
    /\ k \in DOMAIN d => d[k] = e[k]

\* the outcome of a call under id from its starting counter and its invocations
OutcomeOf(id, start, inv) ==
    LET n == Len(inv)
        final == inv[n]
        k == start + Len(SelectSeq(SubSeq(inv, 1, n - 1), LAMBDA e : e.ev = "raise"))
    IN  IF n = 0
        THEN Raised("exhausted", RetryExhausted(id, config.max_retries))
        ELSE IF final.ev = "raise"
        THEN IF IsRateLimitError(final.exc)
             THEN Raised("exhausted", RetryExhausted(id, config.max_retries))
             ELSE Raised("propagated", final.exc)
        ELSE IF /\ Converts(final.res)
                /\ k < config.max_retries
                /\ SnapshotOf(final.res).limit = 0
             THEN Raised("propagated", ZeroDivisionError)
             ELSE Returned(final.res)

C20_OwnStateOnly ==
    LET t == MainThread
        A == last.arg
    IN  (pc[t] # "idle" /\ last.op = "execute_with_retry" /\ ~Falsy(A))
        => /\ op_id[t] = A
           /\ Done(t) => outcome[t] = OutcomeOf(A, StartCount(t), Invocations(trace[t]))

C20_Frame ==
    LET t == MainThread
        A == last'.arg
    IN  (/\ pc[t] # "idle" \/ pc'[t] # "idle"
         /\ last'.op = "execute_with_retry"
         /\ ~Falsy(A))
        => /\ \A B \in (DOMAIN retry_counts \cup DOMAIN retry_counts'
                        \cup DOMAIN rate_limits \cup DOMAIN rate_limits') \ {A} :
                 /\ SameEntry(retry_counts, retry_counts', B)
                 /\ SameEntry(rate_limits, rate_limits', B)
           /\ pc[t] = "idle"
                 => c0'[t] = IF A \in DOMAIN retry_counts THEN retry_counts[A] ELSE -1

C20_IdsIndependent == []C20_OwnStateOnly /\ [][C20_Frame]_vars

\* a call under "a" succeeds at once while the other id has a counter of at
\* least 1 and a stored snapshot
C20_Witness ==
    LET t == MainThread
    IN  /\ Done(t)
        /\ last.op = "execute_with_retry"
        /\ last.arg = "a"
        /\ outcome[t].kind = "result"
        /\ Len(trace[t]) = 1
        /\ HashId \in DOMAIN retry_counts
        /\ retry_counts[HashId] >= 1
        /\ HashId \in DOMAIN rate_limits

====
